---- MODULE Spec2Model ----
\* A model of src/exmschl.py: the synthetic-population generator make_data,
\* the cutoff-count reducer simulate_trials, the rejection-rate reducer
\* A_plus_rejected with its agg(['mean','std']) summary, and the profile
\* count_applicants_tier_score.
\*
\* Numbers.  Scores and percentages are kept as integers in hundredths
\* (72.73 is 7273), which is exact for every value the code rounds to two
\* decimals.  A cell of a table is Num(v) or the missing value NaN.
\*
\* Scale.  The source fixes 8 tiers (np.arange(1, 9)) and selects the top 125
\* rows of a tier (iloc[:125]); populations of that size cannot be enumerated.
\* The model runs the same code over NumTiers tiers and a literal quota of
\* Top125 rows, both small, with populations of at most MaxStudents rows.
EXTENDS Integers, Sequences, FiniteSets

\* ------------------------------------------------------------------ bounds
NumTiers == 3       \* tiers 1..NumTiers stand for the source's tiers 1..8
Top125 == 1         \* the literal of iloc[:125] / head(125), scaled with NumTiers
MaxStudents == 2    \* n_students is drawn from 1..MaxStudents
MaxTrials == 2      \* n_trials is drawn from 1..MaxTrials
MaxRows == 4        \* n_students * n_trials, the rows generated in a call, is at most MaxRows

\* ------------------------------------------------------- program constants
RawLow == 8         \* np.random.randint(8, GPA_max + 1, ...)
APlusFloor == 10    \* raw_score > 10
BonusPoints == 1000 \* sim_df.bonus * 10, in hundredths

\* A cell of a returned table: a number, or pandas' missing value.
NaN == << >>
Num(v) == <<v>>
IsNaN(c) == c = NaN
Val(c) == c[1]

Tiers == 1..NumTiers

VARIABLES
    GPA_max,        \* module globals set from the input form
    n_students,
    total_seats,
    n_trials,
    call,           \* the running function and its arguments
    pc,             \* "loop", "tier", "frame", "agg", "done", or "ValueError" once raised
    i,              \* number of completed iterations of the trial loop
    df_input,       \* the current trial's dataframe
    results_list,   \* simulate_trials: one groupby-count Series per trial
    item,           \* A_plus_rejected: next tier of the inner loop
    wrk_df,         \* A_plus_rejected: the sorted rows of the tier just evaluated
    accepted_df,
    rejected_df,
    list_inner,
    list_outer,
    list_to_agg,    \* count_applicants_tier_score: every trial's dataframe
    list_accepted,  \* count_applicants_tier_score: every trial's top rows per tier
    result_df,      \* count_applicants_tier_score: average count per tier and raw score
    mean_score,     \* count_applicants_tier_score: mean accepted raw score per tier
    sim_df,         \* the returned table
    summary,        \* sim_df.agg(['mean','std'])
    gen_calls,      \* history: number of make_data calls so far
    truth           \* history: per trial, what a direct count over the generated rows gives

vars == <<GPA_max, n_students, total_seats, n_trials, call, pc, i, df_input,
          results_list, item, wrk_df, accepted_df, rejected_df, list_inner,
          list_outer, list_to_agg, list_accepted, result_df, mean_score, sim_df,
          summary, gen_calls, truth>>

\* ----------------------------------------------------------------- helpers
Min(a, b) == IF a < b THEN a ELSE b

RECURSIVE SumSeq(_)
SumSeq(s) == IF s = << >> THEN 0 ELSE Head(s) + SumSeq(Tail(s))

\* Number of rows of a dataframe that satisfy P.
CountRows(df, P(_)) == Cardinality({k \in DOMAIN df : P(df[k])})

\* a / b rounded to the nearest integer, halves to even (numpy rint).
RoundDiv(a, b) ==
    LET q == a \div b
        r == a % b
    IN  IF 2 * r < b THEN q
        ELSE IF 2 * r > b THEN q + 1
        ELSE IF q % 2 = 0 THEN q ELSE q + 1

\* ------------------------------------------------------------ distributions
\* Weights are numerators over WeightDen, so that both lists add up to 1.
WeightDen == NumTiers * (NumTiers + 2)
tier_even == [t \in Tiers |-> NumTiers + 2]
tier_skew == [t \in Tiers |-> 1 + 2 * t]

\* np.random.choice(a, p = ...) raises ValueError unless p has one weight per
\* element of a, no weight is negative and the weights add up to 1.
ChoiceAccepts(p) ==
    /\ Len(p) = NumTiers
    /\ \A t \in DOMAIN p : p[t] >= 0
    /\ SumSeq(p) = WeightDen

\* The tiers np.random.choice can return under p.
Support(p) == {t \in Tiers : p[t] > 0}

\* ---------------------------------------------------------------- make_data
RawScoresOffByOne == RawLow..(GPA_max + 1)
RawScores == RawLow..GPA_max

ScaledScore(raw) == RoundDiv(raw * 10000, GPA_max)

FinalScoreAlwaysBonus(scaled, bonus, bonus_points) == scaled + bonus * BonusPoints
FinalScore(scaled, bonus, bonus_points) ==
    IF bonus_points = TRUE THEN scaled + bonus * BonusPoints
    ELSE scaled + bonus * 0

Row(key, tier, bonus, raw, bonus_points) ==
    [keys |-> key, tier |-> tier, bonus |-> bonus, raw_score |-> raw,
     scaled_score |-> ScaledScore(raw),
     final_score |-> FinalScore(ScaledScore(raw), bonus, bonus_points)]

\* Every dataframe make_data can return: n_students rows, keys 0..n_students-1,
\* the three random columns drawn independently per row.
make_data(tier_prob_dist, bonus_points) ==
    LET draws == Support(tier_prob_dist) \X {1, 0} \X RawScores
    IN  {[k \in 1..n_students |->
             Row(k - 1, d[k][1], d[k][2], d[k][3], bonus_points)] :
         d \in [1..n_students -> draws]}

\* ---------------------------------------------------------- simulate_trials
\* df_input['bonus'] = [0] * len(df_input): the column is overwritten; the
\* final_score column, computed before, is left as it was.
ZeroBonusAndFinalScore(df) ==
    [k \in DOMAIN df |->
        [df[k] EXCEPT !.bonus = 0, !.final_score = df[k].scaled_score]]
ZeroBonusColumn(df) == [k \in DOMAIN df |-> [df[k] EXCEPT !.bonus = 0]]

\* df[df['final_score'] >= cutoff].groupby('tier')['raw_score'].agg('count'):
\* a Series indexed by the tiers that still have a row after the filter.
GroupCount(df, cutoff_score) ==
    LET kept == {k \in DOMAIN df : df[k].final_score >= cutoff_score * 100}
    IN  [t \in {df[k].tier : k \in kept} |->
            Cardinality({k \in kept : df[k].tier = t})]

RECURSIVE SortedSeq(_)
SortedSeq(S) ==
    IF S = {} THEN << >>
    ELSE LET m == CHOOSE x \in S : \A y \in S : x <= y
         IN  <<m>> \o SortedSeq(S \ {m})

\* The labels of series, in the order of their first appearance.
RECURSIVE FirstSeen(_, _)
FirstSeen(series, seen) ==
    IF series = << >> THEN seen
    ELSE LET new == DOMAIN Head(series) \ {seen[j] : j \in DOMAIN seen}
         IN  FirstSeen(Tail(series), seen \o SortedSeq(new))

\* pd.DataFrame(list of Series): the columns are the union of the Series'
\* indexes.  pandas 1.x (Int64Index) returns the union sorted, pandas 2.x
\* returns it in order of first appearance.
ColumnOrders(series) ==
    {SortedSeq(UNION {DOMAIN series[k] : k \in DOMAIN series}),
     FirstSeen(series, << >>)}

\* The frame with the given column order, its columns then renamed by
\* position (sim_df.columns = ['tier1', ...]); a label a Series lacks is NaN.
FrameOf(series, cols) ==
    [k \in DOMAIN series |->
        [j \in Tiers |->
            IF cols[j] \in DOMAIN series[k] THEN Num(series[k][cols[j]]) ELSE NaN]]

\* What the call's population says directly: the rows of tier t whose score,
\* bonus included exactly when bonus_points is on and the row's flag is set,
\* reaches the cutoff.
DirectCount(df, t, cutoff_score, bonus_points) ==
    CountRows(df, LAMBDA r :
        /\ r.tier = t
        /\ r.scaled_score
             + (IF bonus_points /\ r.bonus = 1 THEN BonusPoints ELSE 0)
           >= cutoff_score * 100)

\* One iteration of the trial loop (lines 151-155).
CutoffTrial ==
    /\ call.fn = "simulate_trials"
    /\ pc = "loop"
    /\ i < n_trials
    /\ IF ~ChoiceAccepts(call.dist_list)
       THEN /\ pc' = "ValueError"
            /\ UNCHANGED <<i, df_input, results_list, gen_calls, truth, sim_df>>
       ELSE /\ \E df \in make_data(call.dist_list, call.bonus_points) :
                /\ df_input' = ZeroBonusColumn(df)
                /\ results_list' =
                       Append(results_list, GroupCount(df_input', call.cutoff_score))
                /\ truth' = Append(truth,
                       [t \in Tiers |->
                           DirectCount(df, t, call.cutoff_score, call.bonus_points)])
            /\ gen_calls' = gen_calls + 1
            /\ i' = i + 1
            /\ pc' = IF i + 1 = n_trials THEN "frame" ELSE "loop"
            /\ UNCHANGED sim_df
    /\ UNCHANGED <<GPA_max, n_students, total_seats, n_trials, call, item, wrk_df,
                   accepted_df, rejected_df, list_inner, list_outer, list_to_agg, list_accepted,
                   result_df, mean_score,
                   summary>>

\* After the loop (lines 156-158): build the frame and name its columns.
\* Assigning 8 names to a frame with another number of columns raises
\* ValueError.
CutoffFrame ==
    /\ call.fn = "simulate_trials"
    /\ pc = "frame"
    /\ \E cols \in ColumnOrders(results_list) :
          IF Len(cols) = NumTiers
          THEN /\ sim_df' = FrameOf(results_list, cols)
               /\ pc' = "done"
          ELSE /\ sim_df' = sim_df
               /\ pc' = "ValueError"
    /\ UNCHANGED <<GPA_max, n_students, total_seats, n_trials, call, i, df_input,
                   results_list, item, wrk_df, accepted_df, rejected_df,
                   list_inner, list_outer, list_to_agg, list_accepted,
                   result_df, mean_score, summary, gen_calls, truth>>

\* ---------------------------------------------------------- A_plus_rejected
\* df[df['tier'] == item]: the rows of one tier, in the frame's order.
TierRows(df, t) == SelectSeq(df, LAMBDA r : r.tier = t)

IndexOrders(n) ==
    {p \in [1..n -> 1..n] : \A a, b \in 1..n : a # b => p[a] # p[b]}

\* sort_values('final_score', ascending = False) with the default
\* kind = 'quicksort', which is not stable: every arrangement of the rows by
\* decreasing final_score is a possible result.
sort_values_ascending(df) ==
    {[k \in DOMAIN df |-> df[p[k]]] : p \in
        {q \in IndexOrders(Len(df)) :
            \A a, b \in DOMAIN df :
                a < b => df[q[a]].final_score <= df[q[b]].final_score}}
sort_values(df) ==
    {[k \in DOMAIN df |-> df[p[k]]] : p \in
        {q \in IndexOrders(Len(df)) :
            \A a, b \in DOMAIN df :
                a < b => df[q[a]].final_score >= df[q[b]].final_score}}

\* wrk_df.iloc[:125] and wrk_df.iloc[125:].
iloc_to(df, n) == SubSeq(df, 1, Min(n, Len(df)))
iloc_from(df, n) == SubSeq(df, n + 1, Len(df))

\* df[(df['raw_score'] > 10) & (df['bonus'] == 0)]['raw_score'].agg('count')
APlusCount(df) ==
    CountRows(df, LAMBDA r : r.raw_score > APlusFloor /\ r.bonus = 0)

\* round((rejected_num / (rejected_num + accepted_num)) * 100, 2) on numpy
\* integers: 0 / 0 is nan (a warning, no exception) and stays nan.
reject_rate_zero_for_nan(rejected_num, accepted_num) ==
    IF rejected_num + accepted_num = 0 THEN Num(0)
    ELSE Num(RoundDiv(rejected_num * 10000, rejected_num + accepted_num))
reject_rate(rejected_num, accepted_num) ==
    IF rejected_num + accepted_num = 0 THEN NaN
    ELSE Num(RoundDiv(rejected_num * 10000, rejected_num + accepted_num))

\* Line 176: a new trial's dataframe.  wrk_df, accepted_df and rejected_df of
\* the trial before are not read again before line 181 assigns them; the
\* model clears them here.
RejectGen ==
    /\ call.fn = "A_plus_rejected"
    /\ pc = "loop"
    /\ i < n_trials
    /\ IF ~ChoiceAccepts(call.dist_list)
       THEN /\ pc' = "ValueError"
            /\ UNCHANGED <<df_input, item, wrk_df, accepted_df, rejected_df,
                           list_inner, gen_calls, truth, sim_df>>
       ELSE /\ \E df \in make_data(call.dist_list, call.bonus_points) :
                /\ df_input' = df
                /\ truth' = Append(truth, [t \in Tiers |-> APlusCount(TierRows(df, t))])
            /\ gen_calls' = gen_calls + 1
            /\ list_inner' = << >>
            /\ item' = 1
            /\ wrk_df' = << >>
            /\ accepted_df' = << >>
            /\ rejected_df' = << >>
            /\ pc' = "tier"
            /\ UNCHANGED sim_df
    /\ UNCHANGED <<GPA_max, n_students, total_seats, n_trials, call, i,
                   results_list, list_outer, list_to_agg, list_accepted,
                   result_df, mean_score, summary>>

\* Lines 181-195: one tier of the inner loop; after the last tier, line 198.
RejectTier ==
    /\ call.fn = "A_plus_rejected"
    /\ pc = "tier"
    /\ \E wrk \in sort_values(TierRows(df_input, item)) :
          /\ wrk_df' = wrk
          /\ accepted_df' = iloc_to(wrk, Top125)
          /\ rejected_df' = iloc_from(wrk, Top125)
    /\ list_inner' = Append(list_inner,
           reject_rate(APlusCount(rejected_df'), APlusCount(accepted_df')))
    /\ IF item < NumTiers
       THEN /\ item' = item + 1
            /\ UNCHANGED <<list_outer, i, pc>>
       ELSE /\ item' = item
            /\ list_outer' = Append(list_outer, list_inner')
            /\ i' = i + 1
            /\ pc' = IF i + 1 = n_trials THEN "frame" ELSE "loop"
    /\ UNCHANGED <<GPA_max, n_students, total_seats, n_trials, call, df_input,
                   results_list, list_to_agg, list_accepted,
                   result_df, mean_score, sim_df, summary, gen_calls, truth>>

\* Lines 201-203: the returned frame, one row per trial, columns tier1.. .
RejectFrame ==
    /\ call.fn = "A_plus_rejected"
    /\ pc = "frame"
    /\ sim_df' = list_outer
    /\ pc' = "agg"
    /\ UNCHANGED <<GPA_max, n_students, total_seats, n_trials, call, i, df_input,
                   results_list, item, wrk_df, accepted_df, rejected_df,
                   list_inner, list_outer, list_to_agg, list_accepted,
                   result_df, mean_score, summary, gen_calls, truth>>

\* ---------------------------------------------------- agg(['mean', 'std'])
\* The cells of column t that are not NaN (pandas skips NaN in mean and std).
Column(frame, t) ==
    LET cells == SelectSeq([k \in DOMAIN frame |-> frame[k][t]],
                           LAMBDA c : ~IsNaN(c))
    IN  [k \in DOMAIN cells |-> Val(cells[k])]

\* The mean as the fraction num / den; NaN when no cell is left.
Mean(xs) ==
    IF Len(xs) = 0 THEN NaN ELSE Num([num |-> SumSeq(xs), den |-> Len(xs)])

\* The sample standard deviation (ddof = 1) as the fraction num / den whose
\* square root it is; NaN with fewer than two cells.
Std(xs) ==
    IF Len(xs) < 2 THEN NaN
    ELSE Num([num |-> Len(xs) * SumSeq([k \in DOMAIN xs |-> xs[k] * xs[k]])
                        - SumSeq(xs) * SumSeq(xs),
              den |-> Len(xs) * (Len(xs) - 1)])

agg(frame) ==
    [mean |-> [t \in Tiers |-> Mean(Column(frame, t))],
     std |-> [t \in Tiers |-> Std(Column(frame, t))]]

\* Lines 458 and 466: the summary of the returned frame.
Aggregate ==
    /\ call.fn = "A_plus_rejected"
    /\ pc = "agg"
    /\ summary' = agg(sim_df)
    /\ pc' = "done"
    /\ UNCHANGED <<GPA_max, n_students, total_seats, n_trials, call, i, df_input,
                   results_list, item, wrk_df, accepted_df, rejected_df,
                   list_inner, list_outer, list_to_agg, list_accepted,
                   result_df, mean_score, sim_df, gen_calls, truth>>

\* ------------------------------------------------ count_applicants_tier_score
\* Lines 215-216: one more dataframe, made without bonus points.
ProfileGen ==
    /\ call.fn = "count_applicants_tier_score"
    /\ pc = "loop"
    /\ i < n_trials
    /\ IF ~ChoiceAccepts(call.dist_list)
       THEN /\ pc' = "ValueError"
            /\ UNCHANGED <<i, df_input, list_to_agg, gen_calls>>
       ELSE /\ \E df \in make_data(call.dist_list, FALSE) :
                /\ df_input' = df
                /\ list_to_agg' = Append(list_to_agg, df)
            /\ gen_calls' = gen_calls + 1
            /\ i' = i + 1
            /\ pc' = IF i + 1 = n_trials THEN "frame" ELSE "loop"
    /\ UNCHANGED <<GPA_max, n_students, total_seats, n_trials, call,
                   results_list, item, wrk_df, accepted_df, rejected_df,
                   list_inner, list_outer, list_accepted, result_df, mean_score,
                   sim_df, summary, truth>>

RECURSIVE concat(_)
concat(dfs) == IF dfs = << >> THEN << >> ELSE Head(dfs) \o concat(Tail(dfs))

\* groupby('tier').head(n): the first n rows of every tier, in the frame's order.
group_head(df, n) ==
    LET keep == {k \in DOMAIN df :
                    Cardinality({j \in 1..k : df[j].tier = df[k].tier}) <= n}
        idx == SortedSeq(keep)
    IN  [m \in DOMAIN idx |-> df[idx[m]]]

\* Lines 219-229: per tier, the number of rows per raw score over all trials
\* and their total, divided by n_trials and rounded to two decimals; a raw
\* score a tier never has is NaN in its row.
ProfileTable(new_df) ==
    LET labels == {new_df[k].raw_score : k \in DOMAIN new_df}
        count(t, r) == CountRows(new_df, LAMBDA x : x.tier = t /\ x.raw_score = r)
    IN  [t \in Tiers |->
            [counts |-> [r \in labels |->
                            IF count(t, r) = 0 THEN NaN
                            ELSE Num(RoundDiv(count(t, r) * 100, n_trials))],
             total_applicants |->
                 Num(RoundDiv(Len(TierRows(new_df, t)) * 100, n_trials))]]

\* Lines 243-246: groupby('tier')['raw_score'].mean() of the accepted rows, a
\* Series over the tiers that have a row; each mean is the fraction num / den.
MeanRawScore(rows) ==
    [t \in {rows[k].tier : k \in DOMAIN rows} |->
        [num |-> SumSeq([k \in DOMAIN TierRows(rows, t) |->
                            TierRows(rows, t)[k].raw_score]),
         den |-> Len(TierRows(rows, t))]]

\* Lines 217-248: the two reductions over the collected dataframes.
ProfileReduce ==
    /\ call.fn = "count_applicants_tier_score"
    /\ pc = "frame"
    /\ result_df' = ProfileTable(concat(list_to_agg))
    /\ \E sorted \in [DOMAIN list_to_agg ->
                        UNION {sort_values(list_to_agg[k]) : k \in DOMAIN list_to_agg}] :
          /\ \A k \in DOMAIN list_to_agg : sorted[k] \in sort_values(list_to_agg[k])
          /\ list_accepted' =
                 [k \in DOMAIN list_to_agg |-> group_head(sorted[k], Top125)]
    /\ mean_score' = MeanRawScore(concat(list_accepted'))
    /\ pc' = "done"
    /\ UNCHANGED <<GPA_max, n_students, total_seats, n_trials, call, i, df_input,
                   results_list, item, wrk_df, accepted_df, rejected_df,
                   list_inner, list_outer, list_to_agg, sim_df, summary,
                   gen_calls, truth>>

\* ------------------------------------------------------------ a bare call of make_data
MakeDataCall ==
    /\ call.fn = "make_data"
    /\ pc = "loop"
    /\ \E df \in make_data(call.dist_list, call.bonus_points) : df_input' = df
    /\ gen_calls' = gen_calls + 1
    /\ pc' = "done"
    /\ UNCHANGED <<GPA_max, n_students, total_seats, n_trials, call, i,
                   results_list, item, wrk_df, accepted_df, rejected_df,
                   list_inner, list_outer, list_to_agg, list_accepted,
                   result_df, mean_score, sim_df, summary, truth>>

\* ------------------------------------------------------------ initial states
\* The input form and the variables set from it (lines 66-89), then a call.
InitWith(students, fn, dists, cutoffs, bonuses, seats, trials) ==
    /\ GPA_max \in {11, 12}
    /\ n_students \in students
    /\ total_seats \in seats
    /\ n_trials \in trials
    /\ n_students * n_trials <= MaxRows
    /\ call \in [fn : {fn}, dist_list : dists, cutoff_score : cutoffs,
                 bonus_points : bonuses]
    /\ pc = "loop"
    /\ i = 0
    /\ df_input = << >>
    /\ results_list = << >>
    /\ item = 1
    /\ wrk_df = << >>
    /\ accepted_df = << >>
    /\ rejected_df = << >>
    /\ list_inner = << >>
    /\ list_outer = << >>
    /\ list_to_agg = << >>
    /\ list_accepted = << >>
    /\ result_df = << >>
    /\ mean_score = << >>
    /\ sim_df = << >>
    /\ summary = << >>
    /\ gen_calls = 0
    /\ truth = << >>

InitState(fn, dists, cutoffs, bonuses, seats, trials) ==
    InitWith(1..MaxStudents, fn, dists, cutoffs, bonuses, seats, trials)

DefaultSeats == NumTiers * Top125

\* make_data(dist, bonus_points) on its own.
InitGen ==
    InitState("make_data", {tier_even, tier_skew}, {0}, BOOLEAN, {DefaultSeats}, {1})
NextGen == MakeDataCall
SpecGen == InitGen /\ [][NextGen]_vars

\* simulate_trials(make_data, dist, 90 | 100, bonus_points) (lines 314-320, 388-391).
InitCutoff ==
    InitState("simulate_trials", {tier_skew}, {90, 100}, BOOLEAN,
              {DefaultSeats}, 1..MaxTrials)
NextCutoff == CutoffTrial \/ CutoffFrame
SpecCutoff == InitCutoff /\ [][NextCutoff]_vars

\* A_plus_rejected(dist) (lines 446-448), then its summary (lines 458, 466).
InitReject ==
    InitState("A_plus_rejected", {tier_skew}, {0}, {TRUE}, {DefaultSeats},
              1..MaxTrials)
NextReject == RejectGen \/ RejectTier \/ RejectFrame \/ Aggregate
SpecReject == InitReject /\ [][NextReject]_vars

\* The same call with the form's seat count at its default and at twice that.
InitSeats ==
    InitState("A_plus_rejected", {tier_even}, {0}, {TRUE},
              {DefaultSeats, 2 * DefaultSeats}, {1})
SpecSeats == InitSeats /\ [][NextReject]_vars

\* count_applicants_tier_score(dist) (lines 267-268).  The call keeps every
\* trial's dataframe, so the rows of a call are bounded, not the rows of a trial.
InitProfile ==
    /\ InitState("count_applicants_tier_score", {tier_even, tier_skew}, {0},
                 {FALSE}, {DefaultSeats, 2 * DefaultSeats}, 1..MaxTrials)
    /\ n_students * n_trials <= MaxStudents
NextProfile == ProfileGen \/ ProfileReduce
SpecProfile == InitProfile /\ [][NextProfile]_vars

\* simulate_trials with arguments the input form and the call sites do not
\* produce: a cutoff above 100, a weight list that does not add up to 1.
tier_unnormalised == [t \in Tiers |-> 1]
InitConfig ==
    InitState("simulate_trials", {tier_skew, tier_unnormalised}, {100, 150},
              BOOLEAN, {DefaultSeats}, 1..MaxTrials)
SpecConfig == InitConfig /\ [][NextCutoff]_vars

\* A run of any of the three reducers, as the script calls them.
InitRuns == InitCutoff \/ InitReject \/ InitProfile
NextRuns == NextCutoff \/ NextReject \/ NextProfile
SpecRuns == InitRuns /\ [][NextRuns]_vars

\* The three reducers with the module's n_students at 0, below the form's minimum.
InitEmpty ==
    \/ InitWith({0}, "simulate_trials", {tier_even, tier_skew}, {90, 100},
                BOOLEAN, {DefaultSeats}, 1..MaxTrials)
    \/ InitWith({0}, "A_plus_rejected", {tier_even, tier_skew}, {0}, {TRUE},
                {DefaultSeats}, 1..MaxTrials)
    \/ InitWith({0}, "count_applicants_tier_score", {tier_even, tier_skew}, {0},
                {FALSE}, {DefaultSeats}, 1..MaxTrials)
SpecEmpty == InitEmpty /\ [][NextRuns]_vars

\* ===================================================================== claims
RECURSIVE SumOf(_, _)
SumOf(f, S) ==
    IF S = {} THEN 0
    ELSE LET k == CHOOSE x \in S : TRUE IN f[k] + SumOf(f, S \ {k})

Rows(df) == {df[k] : k \in DOMAIN df}

\* The tier the inner loop of A_plus_rejected evaluated last, once it has
\* evaluated one in the current trial.
TierEvaluated == Len(list_inner) >= 1
LastTier == Len(list_inner)

\* C1: per-tier selection accepts exactly min(tier population,
\* floor(seatCount / number of tiers)) applicants, whatever the seat count.
C1_QuotaFollowsSeatCount ==
    TierEvaluated =>
        Len(accepted_df) =
            Min(Len(TierRows(df_input, LastTier)), total_seats \div NumTiers)

\* C2: accepted and rejected partition the tier's applicants, and every
\* accepted final score is at least every rejected final score.
C2_PartitionAndOrder ==
    TierEvaluated =>
        /\ Len(accepted_df) + Len(rejected_df) = Len(TierRows(df_input, LastTier))
        /\ Rows(accepted_df) \cup Rows(rejected_df) = Rows(TierRows(df_input, LastTier))
        /\ Rows(accepted_df) \cap Rows(rejected_df) = {}
        /\ \A a \in Rows(accepted_df) : \A r \in Rows(rejected_df) :
              a.final_score >= r.final_score

C2_Witness ==
    /\ TierEvaluated
    /\ Len(accepted_df) >= 1
    /\ Len(rejected_df) >= 1
    /\ \E a \in Rows(accepted_df) : \E r \in Rows(rejected_df) :
          a.final_score > r.final_score /\ a.keys > r.keys

\* C3: applicants of a tier with equal final scores are ranked in insertion
\* (id) order, so the lower ids of a tie are the accepted ones.
C3_TiesInInsertionOrder ==
    TierEvaluated =>
        \A a, b \in DOMAIN wrk_df :
            (a < b /\ wrk_df[a].final_score = wrk_df[b].final_score)
                => wrk_df[a].keys < wrk_df[b].keys

\* C4: once simulate_trials has finished, its result is an n_trials x NumTiers
\* table of integers in which a tier without a qualifying applicant holds 0.
C4_ZeroCountsPresent ==
    (call.fn = "simulate_trials" /\ pc \notin {"loop", "frame"}) =>
        /\ pc = "done"
        /\ Len(sim_df) = n_trials
        /\ \A k \in DOMAIN sim_df : \A t \in Tiers :
              /\ ~IsNaN(sim_df[k][t])
              /\ truth[k][t] = 0 => sim_df[k][t] = Num(0)

\* C5: in the returned table, the cell of every trial and tier with a
\* qualifying applicant is the number of that trial's applicants of the tier
\* whose final score, bonus included when enabled and flagged, reaches the cutoff.
C5_CellIsDirectCount ==
    (call.fn = "simulate_trials" /\ pc = "done") =>
        \A k \in DOMAIN sim_df : \A t \in Tiers :
            truth[k][t] > 0 => sim_df[k][t] = Num(truth[k][t])

\* C6: on either grade scale, the rate of a tier counts exactly the rows with
\* raw_score = GPA_max and no bonus: rejected / (accepted + rejected) x 100.
TopBandCount(df) == CountRows(df, LAMBDA r : r.raw_score = GPA_max /\ r.bonus = 0)
C6_TopBandIsMaxGrade ==
    TierEvaluated =>
        list_inner[LastTier] =
            (IF TopBandCount(accepted_df) + TopBandCount(rejected_df) = 0 THEN NaN
             ELSE Num(RoundDiv(TopBandCount(rejected_df) * 10000,
                               TopBandCount(accepted_df) + TopBandCount(rejected_df))))

\* C7: a tier and trial whose rate has denominator 0 gives a missing cell, not
\* 0 and not an exception; the run goes on to return n_trials rows, and the
\* mean and standard deviation of a tier are taken over its non-missing cells.
Counted(t) == {k \in DOMAIN sim_df : truth[k][t] > 0}
CellValues(t) == [k \in DOMAIN sim_df |-> IF IsNaN(sim_df[k][t]) THEN 0 ELSE Val(sim_df[k][t])]
CellSquares(t) == [k \in DOMAIN sim_df |-> CellValues(t)[k] * CellValues(t)[k]]
InvalidConfiguration ==
    \/ ~ChoiceAccepts(call.dist_list)
    \/ n_students <= 0
    \/ total_seats <= 0
    \/ n_trials <= 0
    \/ call.cutoff_score < 0
    \/ call.cutoff_score > 100
    \/ GPA_max \notin {11, 12}
C8_InvalidRejectedFirst ==
    InvalidConfiguration => (gen_calls = 0 /\ i = 0 /\ pc # "done")

SeriesGet(series, t) == IF t \in DOMAIN series THEN series[t] ELSE 0

\* C11: in every run of every reducer, make_data is called once per trial and
\* n_trials times in all, the row of a trial comes from that trial's own
\* dataframe only, and the returned table has n_trials rows.
C11_OncePerTrialOwnRows ==
    /\ gen_calls = (IF pc = "tier" THEN i + 1 ELSE i)
    /\ gen_calls <= n_trials
    /\ pc \notin {"loop", "tier"} => gen_calls = n_trials
    /\ call.fn = "simulate_trials" =>
          /\ \A k \in DOMAIN results_list : \A t \in Tiers :
                SeriesGet(results_list[k], t) = truth[k][t]
          /\ pc \notin {"loop", "frame"} =>
                /\ pc = "done"
                /\ Len(sim_df) = n_trials
                /\ \A k \in DOMAIN sim_df : \A t \in Tiers :
                      \/ sim_df[k][t] = Num(truth[k][t])
                      \/ truth[k][t] = 0 /\ IsNaN(sim_df[k][t])
    /\ call.fn = "A_plus_rejected" =>
          /\ TierEvaluated =>
                list_inner[LastTier] \in
                    {reject_rate(APlusCount(iloc_from(w, Top125)),
                                 APlusCount(iloc_to(w, Top125))) :
                        w \in sort_values(TierRows(df_input, LastTier))}
          /\ \A k \in DOMAIN list_outer : \A t \in Tiers :
                IsNaN(list_outer[k][t]) <=> truth[k][t] = 0
          /\ pc \in {"agg", "done"} => Len(sim_df) = n_trials

\* C12: with n_students = 0 make_data returns an empty dataframe and every
\* reducer completes without an error, simulate_trials returning 0 for every
\* tier of every trial.
C12_EmptyPopulationRuns ==
    n_students = 0 =>
        /\ gen_calls >= 1 => df_input = << >>
        /\ pc # "ValueError"
        /\ (call.fn = "simulate_trials" /\ pc = "done") =>
              /\ Len(sim_df) = n_trials
              /\ \A k \in DOMAIN sim_df : \A t \in Tiers : sim_df[k][t] = Num(0)

\* The rows of the last trial's dataframe in tier t whose score without any
\* bonus points reaches the cutoff.
NoBonusCount(t) ==
    CountRows(df_input, LAMBDA r :
        r.tier = t /\ r.scaled_score >= call.cutoff_score * 100)

====
